---- MODULE Spec2Model ----
(***************************************************************************)
(* Trade lifecycle of the dashboard script static/js/app.js.               *)
(*                                                                         *)
(* The script runs on one event loop.  A handler runs to its next await;   *)
(* a request in flight is an element of the bag `calls`, and the settling  *)
(* of the request is a separate step that runs the rest of the handler.    *)
(*                                                                         *)
(* State the script reads back is kept in variables.  Elements the script  *)
(* only writes (the trade message, the progress tracker, the match and     *)
(* confirm texts) and the alerts are recorded in `last`, the effects of    *)
(* the step taken last.                                                    *)
(*                                                                         *)
(* Specifications:                                                         *)
(*   Spec     the page driven through the handlers the script offers the   *)
(*            user: start a swap, cancel, open the swap page, view or      *)
(*            cancel an offer, check completion, navigate, log in and out; *)
(*   SpecCtl  the trade controller with a tracked trade: in addition       *)
(*            appState.activeTrade is assigned and startTradePolling() is  *)
(*            called.  No function of app.js does either; both are         *)
(*            top-level names of the script.                               *)
(*   SpecConfirm  the same controller while it polls, with responses that  *)
(*            carry tx_hash and last_ledger;                               *)
(*   SpecView the functions of the script (fetchJson, checkCurrencyGate,   *)
(*            showTradeScreen, the render functions), each applied to      *)
(*            inputs it can get;                                           *)
(*   SpecFlows    the trust-line flow (verify, confirm, cancel) and the    *)
(*            send form;                                                   *)
(*   SpecOffers   the Details and Cancel buttons of the open offers while  *)
(*            a trade is tracked and polled.                               *)
(***************************************************************************)
EXTENDS Integers, FiniteSets, Sequences, Bags, TLC

\* ---------------------------------------------------------------- bounds
MaxSeq    == 2      \* offer sequence numbers the backend hands out: 1..MaxSeq
MaxCalls  == 2      \* handler invocations suspended at an await at one time
MaxTimers == 2      \* interval handles the browser can hold at one time

\* ---------------------------------------------------------------- domains
Seqs        == 1..MaxSeq
TimerIds    == 1..MaxTimers
Usernames   == {"", "alice"}
Amounts     == {"", "100"}
Issuers     == {"", "0400", "rIssuer"}
RespHashes  == {"", "ABCD", "EF01"}         \* tx_hash of a response; "" is absent
RespLedgers == {0, 7}               \* last_ledger of a response; 0 is absent
Statuses    == {"submitted", "open", "partially_filled", "filled", "cancelled", "failed"}
Pages       == {"dashboard", "trade"}
OfferLists  == {{}, {1}}            \* the open offers /api/trade/open answers with
Dash        == "-"                  \* the placeholder text shown for a missing value

VARIABLES
  username,      \* appState.username
  location,      \* window.location.href: "/dashboard", or "/" after a redirect
  activeTrade,   \* appState.activeTrade: 0 is null, else its offerSequence
  trackInterval, \* the variable trackInterval: 0 is null, else an interval handle
  liveTimers,    \* interval handles created by setInterval and not yet cleared
  tradeData,     \* the object tradeData
  openOffers,    \* appState.openOffers, as the set of their offer_sequence
  calls,         \* bag of the handler invocations suspended at an await
  startBtn,      \* the submit control of trade screen 1
  page,          \* the page showPage made active
  tradeScreen,   \* the trade screen showTradeScreen made visible
  txHashEl,      \* text of the element tx-hash
  tlCurrentStep,     \* the variable tlCurrentStep: the step of the trust-line flow
  tlConfirmInFlight, \* the variable tlConfirmInFlight
  tlDraft,           \* window.__tlDraft: NullDraft is null
  tlVerifyResults,   \* style.display of the element tl-verify-results
  sendBtn,           \* the control send-btn
  last           \* the step taken last and what it showed

\* The state of the trust-line flow and of the send form
flowVars == <<tlCurrentStep, tlConfirmInFlight, tlDraft, tlVerifyResults, sendBtn>>

vars == <<username, location, activeTrade, trackInterval, liveTimers, tradeData,
          openOffers, calls, startBtn, page, tradeScreen, txHashEl, flowVars, last>>

\* window.__tlDraft = null
NullDraft == [issuerPhone |-> "", currency |-> "", limit |-> ""]

\* ---------------------------------------------------------------- helpers
\* A suspended invocation: the function, the await it is at, the offer sequence
\* it sent or received and still reads (0 when it reads it no more), the
\* terminal status it handles (and whether the trade
\* it asked about was still the active one when that status arrived), whether
\* the interval callback started it, and the button text startTradeFlow saved
Call(fn, pc, seq, status, byTimer, saved) ==
  [fn |-> fn, pc |-> pc, seq |-> seq, status |-> status, stale |-> FALSE,
   byTimer |-> byTimer, saved |-> saved]

InFlight == BagToSet(calls)

Suspend(c) == calls (+) SetToBag({c})

Settle(c) == calls (-) SetToBag({c})

Resume(c, d) == (calls (-) SetToBag({c})) (+) SetToBag({d})

HasRoom == BagCardinality(calls) < MaxCalls

Min(S) == CHOOSE x \in S : \A y \in S : x <= y

\* The effects of a step that shows nothing
Quiet(op) ==
  [op |-> op, status |-> "none", stale |-> FALSE, stopped |-> FALSE, msg |-> "",
   isError |-> FALSE, alert |-> "", pct |-> -1, stage |-> -1, ledger |-> "",
   matchId |-> -1, refreshes |-> 0, dashboards |-> 0,
   response |-> [tx_hash |-> "", last_ledger |-> 0]]

\* The step called stopTradePolling(): whether that cleared a live interval
Stopping(ev) == [ev EXCEPT !.stopped = trackInterval \in liveTimers]

\* The step called refreshAllData()
Refreshing(ev) == [ev EXCEPT !.refreshes = ev.refreshes + 1]

\* The step called showPage('dashboard')
ToDashboard(ev) == [ev EXCEPT !.dashboards = ev.dashboards + 1]

\* setTradeMessage(text, isError)
Say(ev, text, isError) == [ev EXCEPT !.msg = text, !.isError = isError]

\* setTradeMessage(message, true); alert(message)
SayAndAlert(ev, text) == [ev EXCEPT !.msg = text, !.isError = TRUE, !.alert = text]

\* isLikelyXrplAddress: the trimmed text starts with r or R
isLikelyXrplAddress(value) == value = "rIssuer"

\* requirePhoneIdentifier: "" when the value is accepted, else the message thrown
requirePhoneIdentifierError(value) ==
  IF value = "" THEN "field cannot be empty"
  ELSE IF isLikelyXrplAddress(value) THEN "please enter a phone number, not a wallet address."
  ELSE ""

\* getRequiredUsername: TRUE when it returns, FALSE when it redirects and throws
hasUsername == username # ""

\* A percentage table that keeps the last progress for a cancelled offer
stagePct_KeepsProgress(status) ==
  CASE status = "submitted" -> 15
    [] status = "open" -> 45
    [] status = "partially_filled" -> 75
    [] status = "filled" -> 100
    [] status = "cancelled" -> 45
    [] OTHER -> 0

\* renderTradeStepProgress: the percentage and the active stage of the tracker
stagePct(status) ==
  CASE status = "submitted" -> 15
    [] status = "open" -> 45
    [] status = "partially_filled" -> 75
    [] status = "filled" -> 100
    [] OTHER -> 0

activeIndex(status) ==
  CASE status = "submitted" -> 0
    [] status = "open" -> 1
    [] status = "partially_filled" -> 2
    [] OTHER -> 3

renderTradeStepProgress(ev, status) ==
  [ev EXCEPT !.pct = stagePct(status), !.stage = activeIndex(status)]

\* A showTradeScreen that shows the screen it is asked for
showTradeScreen_AsAsked(n) == n

\* showTradeScreen: the screen made visible for a request for screen n
showTradeScreen(n) == IF n = 2 \/ n = 3 THEN 4 ELSE n

\* The elements trade-screen-1 .. trade-screen-4 of the page
TradeScreens == 1..4

\* showTradeScreen(n) on the page: every screen is hidden, then the target is
\* shown when the page has it.  The result is the set of visible screens
visibleAfter(before, n) == {s \in TradeScreens : s = showTradeScreen(n)}

\* stopTradePolling that forgets clearInterval
stopTradePolling_Leak(ti, live) == live

\* clearInterval(trackInterval) of stopTradePolling: the handles left live
stopTradePolling(ti, live) == IF ti # 0 THEN live \ {ti} ELSE live

\* setInterval: the handle it returns
newTimer(live) == Min(TimerIds \ live)

\* A confirmation that prefers the hash the trade already has
confirmHash_PrefersKnown(respHash, td) ==
  IF td.txHash # "" THEN td.txHash ELSE IF respHash # "" THEN respHash ELSE Dash

\* populateConfirm(statusData): the text of tx-hash
confirmHash(respHash, td) ==
  IF respHash # "" THEN respHash ELSE IF td.txHash # "" THEN td.txHash ELSE Dash

\* refreshAllData(): what the four refreshes leave in appState when they settle.
\* ok: all four succeeded; loaded: refreshOpenOffers succeeded
RefreshResults ==
  {r \in [ok : BOOLEAN, loaded : BOOLEAN, offers : OfferLists] :
     /\ r.ok => r.loaded
     /\ ~r.loaded => r.offers = {}}

ApplyRefresh(r) == IF r.loaded THEN r.offers ELSE openOffers

Running == location = "/dashboard"

\* ------------------------------------------------------------------- Init
\* The script has loaded and initApp() has run up to its first await
Init ==
  /\ username \in Usernames
  /\ location = IF username = "" THEN "/" ELSE "/dashboard"
  /\ activeTrade = 0
  /\ trackInterval = 0
  /\ liveTimers = {}
  /\ tradeData = [sellAmount |-> "", buyAmount |-> "", offerSequence |-> 0,
                  txHash |-> ""]
  /\ openOffers = {}
  /\ calls = IF username = "" THEN EmptyBag
             ELSE SetToBag({Call("initApp", "load", 0, "none", FALSE, "")})
  /\ startBtn = [disabled |-> FALSE, text |-> "Start"]
  /\ page = "dashboard"
  /\ tradeScreen = 1
  /\ txHashEl = Dash
  /\ tlCurrentStep = 1
  /\ tlConfirmInFlight = FALSE
  /\ tlDraft = NullDraft
  /\ tlVerifyResults = "none"
  /\ sendBtn = [disabled |-> FALSE, text |-> "Send"]
  /\ last = Quiet("load")

\* ------------------------------------------------------------ page handlers
\* initApp: loadTokenRegistry, refreshAllData and refreshMarketOffers settle
InitAppLoaded(c, r) ==
  /\ Running
  /\ c.fn = "initApp"
  /\ openOffers' = ApplyRefresh(r)
  /\ calls' = Settle(c)
  /\ last' = [Quiet("initApp") EXCEPT !.alert = IF r.ok THEN "" ELSE "Request failed"]
  /\ UNCHANGED <<username, location, activeTrade, trackInterval, liveTimers,
                 tradeData, startBtn, page, tradeScreen, txHashEl>>
  /\ UNCHANGED flowVars

\* showPage(id) from a navigation item
ShowPage(p) ==
  /\ Running
  /\ page' = p
  /\ last' = IF p = "dashboard" THEN ToDashboard(Quiet("showPage"))
             ELSE Quiet("showPage")
  /\ UNCHANGED <<username, location, activeTrade, trackInterval, liveTimers,
                 tradeData, openOffers, calls, startBtn, tradeScreen, txHashEl>>
  /\ UNCHANGED flowVars

\* openSwapFromDashboard / requireTrustline('trade'): showPage('trade'); resetTrade()
OpenSwapFromDashboard ==
  /\ Running
  /\ page' = "trade"
  /\ liveTimers' = stopTradePolling(trackInterval, liveTimers)
  /\ trackInterval' = 0
  /\ activeTrade' = 0
  /\ tradeScreen' = showTradeScreen(1)
  /\ last' = Stopping(Quiet("resetTrade"))
  /\ UNCHANGED <<username, location, tradeData, openOffers, calls, startBtn,
                 txHashEl>>
  /\ UNCHANGED flowVars

\* startTradeFlow that leaves the submit control enabled while it submits
StartTradeFlow_NoDisable(sa, ba, si, bi) ==
  /\ Running
  /\ HasRoom
  /\ sa # "" /\ ba # "" /\ si = "" /\ bi = "" /\ hasUsername
  /\ tradeData' = [tradeData EXCEPT !.sellAmount = sa, !.buyAmount = ba]
  /\ calls' = Suspend(Call("startTradeFlow", "create", 0, "none", FALSE,
                           startBtn.text))
  /\ last' = Quiet("startTradeFlow:request")
  /\ UNCHANGED <<username, location, activeTrade, trackInterval, liveTimers,
                 openOffers, startBtn, page, tradeScreen, txHashEl>>
  /\ UNCHANGED flowVars

\* startTradeFlow, from the submit control of trade screen 1 (goTradeScreen(2)),
\* up to its first await.  A disabled control takes no click.  si and bi are
\* the issuer overrides of the form: captureForm stores them in tradeData and
\* only the same synchronous run of startTradeFlow reads them back.
StartTradeFlow(sa, ba, si, bi) ==
  LET td == [tradeData EXCEPT !.sellAmount = sa, !.buyAmount = ba]
      issuerError ==
        IF si # "" /\ requirePhoneIdentifierError(si) # ""
        THEN requirePhoneIdentifierError(si)
        ELSE IF bi # "" THEN requirePhoneIdentifierError(bi) ELSE ""
  IN
  /\ Running
  /\ ~startBtn.disabled
  /\ HasRoom
  /\ tradeData' = td                                        \* captureForm()
  /\ IF td.sellAmount = "" \/ td.buyAmount = ""
     THEN /\ last' = [Quiet("startTradeFlow:invalid") EXCEPT
                        !.alert = "field cannot be empty"]
          /\ UNCHANGED <<location, calls, startBtn>>
     ELSE IF issuerError # ""
     THEN /\ last' = SayAndAlert(Quiet("startTradeFlow:issuer"), issuerError)
          /\ UNCHANGED <<location, calls, startBtn>>
     ELSE IF ~hasUsername
     THEN /\ location' = "/"
          /\ last' = SayAndAlert(Quiet("startTradeFlow:nouser"),
                                 "No active username session")
          /\ UNCHANGED <<calls, startBtn>>
     ELSE /\ startBtn' = [disabled |-> TRUE, text |-> "Submitting..."]
          /\ calls' = Suspend(Call("startTradeFlow", "create", 0, "none", FALSE,
                                   startBtn.text))
          /\ last' = Quiet("startTradeFlow:request")
          /\ UNCHANGED <<location>>
  /\ UNCHANGED <<username, activeTrade, trackInterval, liveTimers, openOffers,
                 page, tradeScreen, txHashEl>>
  /\ UNCHANGED flowVars

\* startTradeFlow that tracks the new offer and starts polling it
CreateOk_Tracking(c, seq, hash) ==
  LET txHash == IF hash # "" THEN hash ELSE Dash
      live == liveTimers \ {trackInterval}
  IN
  /\ Running
  /\ c.fn = "startTradeFlow" /\ c.pc = "create"
  /\ TimerIds \ live # {}
  /\ tradeData' = [tradeData EXCEPT !.offerSequence = seq, !.txHash = txHash]
  /\ activeTrade' = seq
  /\ trackInterval' = Min(TimerIds \ live)
  /\ liveTimers' = live \cup {Min(TimerIds \ live)}
  /\ txHashEl' = txHash
  /\ tradeScreen' = 4
  /\ calls' = Resume(c, [c EXCEPT !.pc = "refresh", !.seq = seq])
  /\ last' = [Say(Refreshing(Quiet("createOk")), "Trade signed and submitted.", FALSE)
                EXCEPT !.ledger = "REF #"]
  /\ UNCHANGED <<username, location, openOffers, startBtn, page>>
  /\ UNCHANGED flowVars

\* startTradeFlow: /api/trade/create succeeded with offer_sequence seq, tx_hash hash
CreateOk(c, seq, hash) ==
  LET txHash == IF hash # "" THEN hash ELSE Dash
      td == [tradeData EXCEPT !.offerSequence = seq, !.txHash = txHash]
  IN
  /\ Running
  /\ c.fn = "startTradeFlow" /\ c.pc = "create"
  /\ tradeData' = td
  /\ activeTrade' = 0
  /\ liveTimers' = stopTradePolling(trackInterval, liveTimers)
  /\ trackInterval' = 0
  /\ txHashEl' = confirmHash(txHash, td)                    \* populateConfirm
  /\ tradeScreen' = showTradeScreen(4)
  /\ calls' = Resume(c, [c EXCEPT !.pc = "refresh", !.seq = seq])
  /\ last' = [Say(Refreshing(Stopping(Quiet("createOk"))),
                  "Trade signed and submitted. Auto-completed in demo mode.", FALSE)
                EXCEPT !.ledger = "REF #"]
  /\ UNCHANGED <<username, location, openOffers, startBtn, page>>
  /\ UNCHANGED flowVars

\* A failed create whose finally block leaves the submit control disabled
CreateFail_StayDisabled(c) ==
  /\ Running
  /\ c.fn = "startTradeFlow" /\ c.pc = "create"
  /\ calls' = Settle(c)
  /\ last' = SayAndAlert(Quiet("createFail"), "Request failed")
  /\ UNCHANGED <<username, location, activeTrade, trackInterval, liveTimers,
                 tradeData, openOffers, startBtn, page, tradeScreen, txHashEl>>
  /\ UNCHANGED flowVars

\* startTradeFlow: /api/trade/create failed: catch, then finally
CreateFail(c) ==
  /\ Running
  /\ c.fn = "startTradeFlow" /\ c.pc = "create"
  /\ startBtn' = [disabled |-> FALSE, text |-> c.saved]
  /\ calls' = Settle(c)
  /\ last' = SayAndAlert(Quiet("createFail"), "Request failed")
  /\ UNCHANGED <<username, location, activeTrade, trackInterval, liveTimers,
                 tradeData, openOffers, page, tradeScreen, txHashEl>>
  /\ UNCHANGED flowVars

\* startTradeFlow: the refreshAllData() after a successful create settles
CreateRefreshed(c, r) ==
  /\ Running
  /\ c.fn = "startTradeFlow" /\ c.pc = "refresh"
  /\ openOffers' = ApplyRefresh(r)
  /\ startBtn' = [disabled |-> FALSE, text |-> c.saved]
  /\ calls' = Settle(c)
  /\ last' = IF r.ok THEN Quiet("createRefreshed")
             ELSE SayAndAlert(Quiet("createRefreshFailed"), "Request failed")
  /\ UNCHANGED <<username, location, activeTrade, trackInterval, liveTimers,
                 tradeData, page, tradeScreen, txHashEl>>
  /\ UNCHANGED flowVars

\* A cancelOffer that, with no trade active, shows the dashboard and leaves the
\* timer alone
CancelOffer_IdleKeepsTimer ==
  /\ Running
  /\ IF activeTrade = 0
     THEN /\ tradeScreen' = showTradeScreen(1)
          /\ page' = "dashboard"
          /\ last' = ToDashboard(Quiet("cancelOffer:idle"))
          /\ UNCHANGED <<location, calls, activeTrade, trackInterval, liveTimers>>
     ELSE IF ~hasUsername
     THEN /\ location' = "/"
          /\ last' = SayAndAlert(Quiet("cancelOffer:nouser"),
                                 "No active username session")
          /\ UNCHANGED <<activeTrade, trackInterval, liveTimers, tradeScreen,
                         page, calls>>
     ELSE /\ HasRoom
          /\ calls' = Suspend(Call("cancelOffer", "cancel", activeTrade, "none",
                                   FALSE, ""))
          /\ last' = Quiet("cancelOffer:request")
          /\ UNCHANGED <<location, activeTrade, trackInterval, liveTimers,
                         tradeScreen, page>>
  /\ UNCHANGED <<username, tradeData, openOffers, startBtn, txHashEl>>
  /\ UNCHANGED flowVars

\* cancelOffer (and noMatchFound, which only calls it), up to its first await
CancelOffer ==
  /\ Running
  /\ IF activeTrade = 0
     THEN /\ liveTimers' = stopTradePolling(trackInterval, liveTimers)   \* resetTrade()
          /\ trackInterval' = 0
          /\ activeTrade' = 0
          /\ tradeScreen' = showTradeScreen(1)
          /\ page' = "dashboard"
          /\ last' = ToDashboard(Stopping(Quiet("cancelOffer:idle")))
          /\ UNCHANGED <<location, calls>>
     ELSE IF ~hasUsername
     THEN /\ location' = "/"
          /\ last' = SayAndAlert(Quiet("cancelOffer:nouser"),
                                 "No active username session")
          /\ UNCHANGED <<activeTrade, trackInterval, liveTimers, tradeScreen,
                         page, calls>>
     ELSE /\ HasRoom
          /\ calls' = Suspend(Call("cancelOffer", "cancel", activeTrade, "none",
                                   FALSE, ""))
          /\ last' = Quiet("cancelOffer:request")
          /\ UNCHANGED <<location, activeTrade, trackInterval, liveTimers,
                         tradeScreen, page>>
  /\ UNCHANGED <<username, tradeData, openOffers, startBtn, txHashEl>>
  /\ UNCHANGED flowVars

\* The value of the sell and buy amounts of an open offer
OfferValue(seq) == "100"

\* A viewOfferDetails that starts tracking the offer it shows
ViewOfferDetails_Tracking(seq) ==
  LET td == [tradeData EXCEPT !.offerSequence = seq,
                              !.sellAmount = OfferValue(seq),
                              !.buyAmount = OfferValue(seq),
                              !.txHash = Dash]
      live == liveTimers \ {trackInterval}
  IN
  /\ Running
  /\ seq \in openOffers
  /\ TimerIds \ live # {}
  /\ tradeData' = td
  /\ activeTrade' = seq
  /\ trackInterval' = Min(TimerIds \ live)
  /\ liveTimers' = live \cup {Min(TimerIds \ live)}
  /\ txHashEl' = Dash
  /\ page' = "trade"
  /\ tradeScreen' = 4
  /\ last' = [Say(Quiet("viewOfferDetails"), "Showing details for offer", FALSE)
                EXCEPT !.ledger = "Offer status"]
  /\ UNCHANGED <<username, location, openOffers, calls, startBtn>>
  /\ UNCHANGED flowVars

\* viewOfferDetails(offerSequence) from the Details button of an open offer
ViewOfferDetails(seq) ==
  LET td == [tradeData EXCEPT !.offerSequence = seq,
                              !.sellAmount = OfferValue(seq),
                              !.buyAmount = OfferValue(seq),
                              !.txHash = Dash]
  IN
  /\ Running
  /\ IF seq \notin openOffers
     THEN /\ last' = Quiet("viewOfferDetails:none")
          /\ UNCHANGED <<tradeData, activeTrade, txHashEl, tradeScreen, page>>
     ELSE /\ tradeData' = td
          /\ activeTrade' = 0
          /\ txHashEl' = confirmHash(Dash, td)              \* populateConfirm
          /\ page' = "trade"
          /\ tradeScreen' = showTradeScreen(4)
          /\ last' = [Say(Quiet("viewOfferDetails"), "Showing details for offer", FALSE)
                        EXCEPT !.ledger = "Offer status"]
  /\ UNCHANGED <<username, location, trackInterval, liveTimers, openOffers,
                 calls, startBtn>>
  /\ UNCHANGED flowVars

\* ------------------------------------------------------ tracking and polling
\* How a rejected refreshActiveTradeStatus() is reported: the interval callback
\* of startTradePolling sets the trade message, checkTradeCompletion alerts
Report(ev, byTimer, err) ==
  IF byTimer THEN Say(ev, err, TRUE) ELSE [ev EXCEPT !.alert = err]

\* checkTradeCompletion, after its refreshActiveTradeStatus() returned
Completion(ev, byTimer, hashText) ==
  IF ~byTimer /\ hashText \in {"", Dash}
  THEN [ev EXCEPT !.alert = "Trade is still processing on ledger."]
  ELSE ev

\* A trade starts being tracked: appState.activeTrade is assigned and
\* startTradePolling() runs
TrackTrade(seq) ==
  LET live == stopTradePolling(trackInterval, liveTimers) IN
  /\ Running
  /\ TimerIds \ live # {}
  /\ activeTrade' = seq
  /\ trackInterval' = newTimer(live)
  /\ liveTimers' = live \cup {newTimer(live)}
  /\ last' = Stopping(Quiet("trackTrade"))
  /\ UNCHANGED <<username, location, tradeData, openOffers, calls, startBtn,
                 page, tradeScreen, txHashEl>>
  /\ UNCHANGED flowVars

\* A refreshActiveTradeStatus() that asks for the status with no trade active
BeginStatus_Unguarded(byTimer) ==
  IF ~hasUsername
  THEN /\ location' = "/"
       /\ last' = Report(Quiet("status:nouser"), byTimer, "No active username session")
       /\ UNCHANGED <<calls>>
  ELSE /\ HasRoom
       /\ calls' = Suspend(Call("refreshActiveTradeStatus", "status", activeTrade,
                                "none", byTimer, ""))
       /\ last' = Quiet("status:request")
       /\ UNCHANGED <<location>>

\* refreshActiveTradeStatus() up to its await
\* (byTimer: from the interval callback; else from checkTradeCompletion)
BeginStatus(byTimer) ==
  IF activeTrade = 0
  THEN /\ last' = Completion(Quiet("status:idle"), byTimer, txHashEl)
       /\ UNCHANGED <<location, calls>>
  ELSE IF ~hasUsername
  THEN /\ location' = "/"
       /\ last' = Report(Quiet("status:nouser"), byTimer, "No active username session")
       /\ UNCHANGED <<calls>>
  ELSE /\ HasRoom
       /\ calls' = Suspend(Call("refreshActiveTradeStatus", "status", activeTrade,
                                "none", byTimer, ""))
       /\ last' = Quiet("status:request")
       /\ UNCHANGED <<location>>

\* The interval callback of a live timer fires
PollTick(t) ==
  /\ Running
  /\ t \in liveTimers
  /\ BeginStatus(TRUE)
  /\ UNCHANGED <<username, activeTrade, trackInterval, liveTimers, tradeData,
                 openOffers, startBtn, page, tradeScreen, txHashEl>>
  /\ UNCHANGED flowVars

\* checkTradeCompletion, up to the await inside refreshActiveTradeStatus
CheckTradeCompletion ==
  /\ Running
  /\ BeginStatus(FALSE)
  /\ UNCHANGED <<username, activeTrade, trackInterval, liveTimers, tradeData,
                 openOffers, startBtn, page, tradeScreen, txHashEl>>
  /\ UNCHANGED flowVars

\* A status handler that treats a partial fill as the end of polling
StatusOk_PartialEndsPolling(c, status, hash, ledger) ==
  LET ev == [renderTradeStepProgress(Quiet("statusOk"), status)
               EXCEPT !.status = status, !.stale = c.seq # activeTrade,
                      !.response = [tx_hash |-> hash, last_ledger |-> ledger]]
      matchId == IF tradeData.offerSequence # 0 THEN tradeData.offerSequence
                 ELSE activeTrade
      \* the rest of the function after its refreshAllData(): it reads the
      \* offer sequence no more
      Continue(d, st) == [d EXCEPT !.pc = "refresh", !.seq = 0, !.status = st,
                                   !.stale = d.seq # activeTrade]
      tdFilled == [tradeData EXCEPT !.txHash = confirmHash(hash, tradeData)]
      nullTrade == "Cannot read properties of null"
  IN
  /\ Running
  /\ c.fn = "refreshActiveTradeStatus" /\ c.pc = "status"
  /\ CASE status \in {"open", "submitted"} ->
            /\ tradeScreen' = showTradeScreen(2)
            /\ calls' = Settle(c)
            /\ last' = IF activeTrade # 0
                       THEN Completion(Say(ev, "Offer is on ledger.", FALSE),
                                       c.byTimer, txHashEl)
                       ELSE Report(ev, c.byTimer, nullTrade)
            /\ UNCHANGED <<tradeData, activeTrade, trackInterval, liveTimers,
                           txHashEl>>
       [] status = "partially_filled" ->
            /\ tradeData' = IF hash # "" THEN [tradeData EXCEPT !.txHash = hash]
                            ELSE tradeData
            /\ tradeScreen' = showTradeScreen(3)
            /\ calls' = Settle(c)
            /\ liveTimers' = stopTradePolling(trackInterval, liveTimers)
            /\ trackInterval' = 0
            /\ last' = Completion([Say(Stopping(ev), "A partial fill was detected.", FALSE)
                                     EXCEPT !.matchId = matchId],
                                  c.byTimer, txHashEl)
            /\ UNCHANGED <<activeTrade, txHashEl>>
       [] status = "filled" ->
            /\ tradeData' = tdFilled
            /\ txHashEl' = confirmHash(hash, tdFilled)      \* populateConfirm
            /\ tradeScreen' = showTradeScreen(4)
            /\ liveTimers' = stopTradePolling(trackInterval, liveTimers)
            /\ trackInterval' = 0
            /\ calls' = Resume(c, Continue(c, status))
            /\ last' = [Say(Refreshing(Stopping(ev)), "Trade filled successfully.", FALSE)
                          EXCEPT !.ledger = IF ledger # 0 THEN "last_ledger"
                                            ELSE "Validated ledger"]
            /\ UNCHANGED <<activeTrade>>
       [] status \in {"cancelled", "failed"} ->
            /\ liveTimers' = stopTradePolling(trackInterval, liveTimers)
            /\ trackInterval' = 0
            /\ activeTrade' = 0
            /\ calls' = Resume(c, Continue(c, status))
            /\ last' = Say(Refreshing(Stopping(ev)),
                           IF status = "cancelled" THEN "Offer cancelled."
                               ELSE "Offer failed or no longer available.", TRUE)
            /\ UNCHANGED <<tradeData, txHashEl, tradeScreen>>
  /\ UNCHANGED <<username, location, openOffers, startBtn, page>>
  /\ UNCHANGED flowVars

\* refreshActiveTradeStatus: /api/trade/status answered with this status
StatusOk(c, status, hash, ledger) ==
  LET ev == [renderTradeStepProgress(Quiet("statusOk"), status)
               EXCEPT !.status = status, !.stale = c.seq # activeTrade,
                      !.response = [tx_hash |-> hash, last_ledger |-> ledger]]
      matchId == IF tradeData.offerSequence # 0 THEN tradeData.offerSequence
                 ELSE activeTrade
      \* the rest of the function after its refreshAllData(): it reads the
      \* offer sequence no more
      Continue(d, st) == [d EXCEPT !.pc = "refresh", !.seq = 0, !.status = st,
                                   !.stale = d.seq # activeTrade]
      tdFilled == [tradeData EXCEPT !.txHash = confirmHash(hash, tradeData)]
      nullTrade == "Cannot read properties of null"
  IN
  /\ Running
  /\ c.fn = "refreshActiveTradeStatus" /\ c.pc = "status"
  /\ CASE status \in {"open", "submitted"} ->
            /\ tradeScreen' = showTradeScreen(2)
            /\ calls' = Settle(c)
            /\ last' = IF activeTrade # 0
                       THEN Completion(Say(ev, "Offer is on ledger.", FALSE),
                                       c.byTimer, txHashEl)
                       ELSE Report(ev, c.byTimer, nullTrade)
            /\ UNCHANGED <<tradeData, activeTrade, trackInterval, liveTimers,
                           txHashEl>>
       [] status = "partially_filled" ->
            /\ tradeData' = IF hash # "" THEN [tradeData EXCEPT !.txHash = hash]
                            ELSE tradeData
            /\ tradeScreen' = showTradeScreen(3)
            /\ calls' = Settle(c)
            /\ last' = Completion([Say(ev, "A partial fill was detected.", FALSE)
                                     EXCEPT !.matchId = matchId],
                                  c.byTimer, txHashEl)
            /\ UNCHANGED <<activeTrade, trackInterval, liveTimers, txHashEl>>
       [] status = "filled" ->
            /\ tradeData' = tdFilled
            /\ txHashEl' = confirmHash(hash, tdFilled)      \* populateConfirm
            /\ tradeScreen' = showTradeScreen(4)
            /\ liveTimers' = stopTradePolling(trackInterval, liveTimers)
            /\ trackInterval' = 0
            /\ calls' = Resume(c, Continue(c, status))
            /\ last' = [Say(Refreshing(Stopping(ev)), "Trade filled successfully.", FALSE)
                          EXCEPT !.ledger = IF ledger # 0 THEN "last_ledger"
                                            ELSE "Validated ledger"]
            /\ UNCHANGED <<activeTrade>>
       [] status \in {"cancelled", "failed"} ->
            /\ liveTimers' = stopTradePolling(trackInterval, liveTimers)
            /\ trackInterval' = 0
            /\ activeTrade' = 0
            /\ calls' = Resume(c, Continue(c, status))
            /\ last' = Say(Refreshing(Stopping(ev)),
                           IF status = "cancelled" THEN "Offer cancelled."
                               ELSE "Offer failed or no longer available.", TRUE)
            /\ UNCHANGED <<tradeData, txHashEl, tradeScreen>>
  /\ UNCHANGED <<username, location, openOffers, startBtn, page>>
  /\ UNCHANGED flowVars

\* A poll failure that aborts the flow the way a creation failure does
StatusFail_Abort(c) ==
  /\ Running
  /\ c.fn = "refreshActiveTradeStatus" /\ c.pc = "status"
  /\ liveTimers' = liveTimers \ {trackInterval}
  /\ trackInterval' = 0
  /\ activeTrade' = 0
  /\ calls' = Settle(c)
  /\ last' = Report([Quiet("statusFail") EXCEPT !.stale = c.seq # activeTrade],
                    c.byTimer, "Request failed")
  /\ UNCHANGED <<username, location, tradeData, openOffers, startBtn, page,
                 tradeScreen, txHashEl>>
  /\ UNCHANGED flowVars

\* refreshActiveTradeStatus: /api/trade/status failed
StatusFail(c) ==
  /\ Running
  /\ c.fn = "refreshActiveTradeStatus" /\ c.pc = "status"
  /\ calls' = Settle(c)
  /\ last' = Report([Quiet("statusFail") EXCEPT !.stale = c.seq # activeTrade],
                    c.byTimer, "Request failed")
  /\ UNCHANGED <<username, location, activeTrade, trackInterval, liveTimers,
                 tradeData, openOffers, startBtn, page, tradeScreen, txHashEl>>
  /\ UNCHANGED flowVars

\* refreshActiveTradeStatus: the refreshAllData() of a terminal status settles
StatusRefreshed(c, r) ==
  LET toDashboard == r.ok /\ c.status \in {"cancelled", "failed"}
      ev == [Quiet(IF r.ok THEN "statusRefreshed" ELSE "statusRefreshFailed")
               EXCEPT !.status = c.status, !.stale = c.stale]
  IN
  /\ Running
  /\ c.fn = "refreshActiveTradeStatus" /\ c.pc = "refresh"
  /\ openOffers' = ApplyRefresh(r)
  /\ page' = IF toDashboard THEN "dashboard" ELSE page
  /\ last' = IF toDashboard THEN Completion(ToDashboard(ev), c.byTimer, txHashEl)
             ELSE IF r.ok THEN Completion(ev, c.byTimer, txHashEl)
             ELSE Report(ev, c.byTimer, "Request failed")
  /\ calls' = Settle(c)
  /\ UNCHANGED <<username, location, activeTrade, trackInterval, liveTimers,
                 tradeData, startBtn, tradeScreen, txHashEl>>
  /\ UNCHANGED flowVars

\* cancelOffer: /api/trade/cancel succeeded
CancelOk(c) ==
  /\ Running
  /\ c.fn = "cancelOffer" /\ c.pc = "cancel"
  /\ liveTimers' = stopTradePolling(trackInterval, liveTimers)
  /\ trackInterval' = 0
  /\ activeTrade' = 0
  /\ tradeScreen' = showTradeScreen(1)                      \* resetTrade()
  /\ calls' = Resume(c, [c EXCEPT !.pc = "refresh", !.seq = 0])
  /\ last' = Refreshing(Stopping(Quiet("cancelOk")))
  /\ UNCHANGED <<username, location, tradeData, openOffers, startBtn, page,
                 txHashEl>>
  /\ UNCHANGED flowVars

\* A failed cancel that resets the trade all the same
CancelFail_Reset(c) ==
  /\ Running
  /\ c.fn = "cancelOffer" /\ c.pc = "cancel"
  /\ liveTimers' = liveTimers \ {trackInterval}
  /\ trackInterval' = 0
  /\ activeTrade' = 0
  /\ tradeScreen' = 1
  /\ calls' = Settle(c)
  /\ last' = SayAndAlert(Quiet("cancelFail"), "Request failed")
  /\ UNCHANGED <<username, location, tradeData, openOffers, startBtn, page,
                 txHashEl>>
  /\ UNCHANGED flowVars

\* cancelOffer: /api/trade/cancel failed
CancelFail(c) ==
  /\ Running
  /\ c.fn = "cancelOffer" /\ c.pc = "cancel"
  /\ calls' = Settle(c)
  /\ last' = SayAndAlert(Quiet("cancelFail"), "Request failed")
  /\ UNCHANGED <<username, location, activeTrade, trackInterval, liveTimers,
                 tradeData, openOffers, startBtn, page, tradeScreen, txHashEl>>
  /\ UNCHANGED flowVars

\* cancelOffer: the refreshAllData() after a successful cancel settles
CancelRefreshed(c, r) ==
  /\ Running
  /\ c.fn = "cancelOffer" /\ c.pc = "refresh"
  /\ openOffers' = ApplyRefresh(r)
  /\ page' = IF r.ok THEN "dashboard" ELSE page
  /\ calls' = Settle(c)
  /\ last' = IF r.ok THEN Say(ToDashboard(Quiet("cancelRefreshed")),
                               "Offer cancelled.", FALSE)
             ELSE SayAndAlert(Quiet("cancelRefreshFailed"), "Request failed")
  /\ UNCHANGED <<username, location, activeTrade, trackInterval, liveTimers,
                 tradeData, startBtn, tradeScreen, txHashEl>>
  /\ UNCHANGED flowVars

\* --------------------------------------------------- cancel of an open offer
\* cancelOfferBySequence(offerSequence), from the Cancel button of an open
\* offer, up to its await; seq 0 is cancelOfferById finding no offer
CancelOfferBySequence(seq) ==
  /\ Running
  /\ seq = 0 \/ seq \in openOffers
  /\ IF seq = 0
     THEN /\ last' = Quiet("cancelOfferBySequence:none")
          /\ UNCHANGED <<location, calls>>
     ELSE IF ~hasUsername
     THEN /\ location' = "/"
          /\ last' = [Quiet("cancelOfferBySequence:nouser") EXCEPT
                        !.alert = "No active username session"]
          /\ UNCHANGED <<calls>>
     ELSE /\ HasRoom
          /\ calls' = Suspend(Call("cancelOfferBySequence", "cancel", seq, "none",
                                   FALSE, ""))
          /\ last' = Quiet("cancelOfferBySequence:request")
          /\ UNCHANGED <<location>>
  /\ UNCHANGED <<username, activeTrade, trackInterval, liveTimers, tradeData,
                 openOffers, startBtn, page, tradeScreen, txHashEl>>
  /\ UNCHANGED flowVars

\* A cancelOfferBySequence that resets the trade the way cancelOffer does
CancelSeqOk_Resets(c) ==
  /\ Running
  /\ c.fn = "cancelOfferBySequence" /\ c.pc = "cancel"
  /\ liveTimers' = liveTimers \ {trackInterval}
  /\ trackInterval' = 0
  /\ activeTrade' = 0
  /\ tradeScreen' = 1
  /\ calls' = Resume(c, [c EXCEPT !.pc = "refresh", !.seq = 0])
  /\ last' = Refreshing(Quiet("cancelSeqOk")) @@ [cancelled |-> c.seq]
  /\ UNCHANGED <<username, location, tradeData, openOffers, startBtn, page,
                 txHashEl>>
  /\ UNCHANGED flowVars

\* cancelOfferBySequence: /api/trade/cancel succeeded: refreshAllData() is awaited
CancelSeqOk(c) ==
  /\ Running
  /\ c.fn = "cancelOfferBySequence" /\ c.pc = "cancel"
  /\ calls' = Resume(c, [c EXCEPT !.pc = "refresh", !.seq = 0])
  /\ last' = Refreshing(Quiet("cancelSeqOk")) @@ [cancelled |-> c.seq]
  /\ UNCHANGED <<username, location, activeTrade, trackInterval, liveTimers,
                 tradeData, openOffers, startBtn, page, tradeScreen, txHashEl>>
  /\ UNCHANGED flowVars

\* cancelOfferBySequence: /api/trade/cancel failed: alert
CancelSeqFail(c) ==
  /\ Running
  /\ c.fn = "cancelOfferBySequence" /\ c.pc = "cancel"
  /\ calls' = Settle(c)
  /\ last' = [Quiet("cancelSeqFail") EXCEPT !.alert = "Request failed"] @@
               [cancelled |-> c.seq]
  /\ UNCHANGED <<username, location, activeTrade, trackInterval, liveTimers,
                 tradeData, openOffers, startBtn, page, tradeScreen, txHashEl>>
  /\ UNCHANGED flowVars

\* cancelOfferBySequence: the refreshAllData() after the cancel settles
CancelSeqRefreshed(c, r) ==
  /\ Running
  /\ c.fn = "cancelOfferBySequence" /\ c.pc = "refresh"
  /\ openOffers' = ApplyRefresh(r)
  /\ calls' = Settle(c)
  /\ last' = IF r.ok THEN Quiet("cancelSeqRefreshed")
             ELSE [Quiet("cancelSeqRefreshFailed") EXCEPT !.alert = "Request failed"]
  /\ UNCHANGED <<username, location, activeTrade, trackInterval, liveTimers,
                 tradeData, startBtn, page, tradeScreen, txHashEl>>
  /\ UNCHANGED flowVars

\* ------------------------------------------------------- session and entry page
\* What the user types into a username field, and into a password field
TypedUsernames == {"", " Alice ", "alice"}
TypedPasswords == {"", "pw", "pw2"}

\* value.trim().toLowerCase() of a username field
trimLower(value) == IF value \in {" Alice ", "alice"} THEN "alice" ELSE ""

OnEntryPage == location = "/"

\* A document has just loaded with u persisted as xrpl_username: the entry page,
\* or the dashboard with initApp() at its first await
FreshPage(u, op) ==
  /\ username' = u
  /\ location' = IF u = "" THEN "/" ELSE "/dashboard"
  /\ activeTrade' = 0
  /\ trackInterval' = 0
  /\ liveTimers' = {}
  /\ tradeData' = [sellAmount |-> "", buyAmount |-> "", offerSequence |-> 0,
                   txHash |-> ""]
  /\ openOffers' = {}
  /\ calls' = IF u = "" THEN EmptyBag
              ELSE SetToBag({Call("initApp", "load", 0, "none", FALSE, "")})
  /\ startBtn' = [disabled |-> FALSE, text |-> "Start"]
  /\ page' = "dashboard"
  /\ tradeScreen' = 1
  /\ txHashEl' = Dash
  /\ tlCurrentStep' = 1
  /\ tlConfirmInFlight' = FALSE
  /\ tlDraft' = NullDraft
  /\ tlVerifyResults' = "none"
  /\ sendBtn' = [disabled |-> FALSE, text |-> "Send"]
  /\ last' = Quiet(op)

\* logout(): the persisted username is removed and the entry page is loaded
Logout ==
  /\ Running
  /\ FreshPage("", "logout")

\* A suspended handleLogin or handleRegister: the username it submitted
AuthCall(fn, u) == Call(fn, "auth", 0, "none", FALSE, "") @@ [user |-> u]

\* The submit button of a form is disabled while its handler is suspended
AuthInFlight(fn) == \E c \in InFlight : c.fn = fn

entryVars == <<username, location, activeTrade, trackInterval, liveTimers,
               tradeData, openOffers, startBtn, page, tradeScreen, txHashEl,
               flowVars>>

\* handleLogin, up to its await
HandleLogin(typed, password) ==
  /\ OnEntryPage
  /\ ~AuthInFlight("handleLogin")
  /\ IF trimLower(typed) = "" \/ password = ""
     THEN /\ last' = [Quiet("handleLogin:invalid") EXCEPT !.alert = "field cannot be empty"]
          /\ UNCHANGED calls
     ELSE /\ calls' = Suspend(AuthCall("handleLogin", trimLower(typed)))
          /\ last' = Quiet("handleLogin:request")
  /\ UNCHANGED entryVars

\* handleRegister, up to its await
HandleRegister(typed, password, confirm) ==
  /\ OnEntryPage
  /\ ~AuthInFlight("handleRegister")
  /\ IF trimLower(typed) = "" \/ password = ""
     THEN /\ last' = [Quiet("handleRegister:invalid") EXCEPT !.alert = "field cannot be empty"]
          /\ UNCHANGED calls
     ELSE IF password # confirm
     THEN /\ last' = [Quiet("handleRegister:mismatch") EXCEPT
                        !.alert = "Password and confirm password do not match."]
          /\ UNCHANGED calls
     ELSE /\ calls' = Suspend(AuthCall("handleRegister", trimLower(typed)))
          /\ last' = Quiet("handleRegister:request")
  /\ UNCHANGED entryVars

\* handleLogin / handleRegister: postJson succeeded: goToDashboard(username)
AuthOk(c) ==
  /\ OnEntryPage
  /\ c.fn \in {"handleLogin", "handleRegister"}
  /\ FreshPage(c.user, "authOk")

\* A failed login that goes to the dashboard all the same
AuthFail_GoesOn(c) ==
  /\ OnEntryPage
  /\ c.fn \in {"handleLogin", "handleRegister"}
  /\ FreshPage(c.user, "authFail")

\* handleLogin / handleRegister: postJson failed: alert, the button is enabled again
AuthFail(c) ==
  /\ OnEntryPage
  /\ c.fn \in {"handleLogin", "handleRegister"}
  /\ calls' = Settle(c)
  /\ last' = [Quiet("authFail") EXCEPT !.alert = "Request failed"]
  /\ UNCHANGED entryVars

\* ------------------------------------------------- functions of the script
\* Values of a currency field or of the currency of a trust line, as typed
Currencies == {"", "XRP", " xrp ", "USD", "usd", "EUR"}

\* normalizeCurrency: String(value || '').trim().toUpperCase()
normalizeCurrency(value) ==
  CASE value \in {"XRP", " xrp "} -> "XRP"
    [] value \in {"USD", "usd"} -> "USD"
    [] value = "EUR" -> "EUR"
    [] OTHER -> ""

\* The trust-line sets of appState.trustlines, as the currency of each line
TrustlineSets == SUBSET {"usd", "EUR"}

\* hasTrustlineFor(currency) with the default issuer ''
hasTrustlineFor(currency, trustlines) ==
  IF normalizeCurrency(currency) = "XRP" THEN TRUE
  ELSE \E line \in trustlines : normalizeCurrency(line) = normalizeCurrency(currency)

\* A gate of the trade page that looks at the sell currency alone
checkCurrencyGate_SellOnly(id, sell, buy, send, trustlines) ==
  LET needs(value) == /\ normalizeCurrency(value) # "XRP"
                      /\ ~hasTrustlineFor(normalizeCurrency(value), trustlines)
  IN IF id = "trade"
     THEN (IF needs(sell) THEN "flex" ELSE "none")
     ELSE (IF needs(send) THEN "flex" ELSE "none")

\* checkCurrencyGate(page): the display of the gate of the page
checkCurrencyGate(id, sell, buy, send, trustlines) ==
  LET needs(value) == /\ normalizeCurrency(value) # "XRP"
                      /\ ~hasTrustlineFor(normalizeCurrency(value), trustlines)
  IN IF id = "trade"
     THEN (IF needs(sell) \/ needs(buy) THEN "flex" ELSE "none")
     ELSE (IF needs(send) THEN "flex" ELSE "none")

\* What fetch and response.json() can give fetchJson: fetch rejects with the
\* browser's own message, or resolves with response.ok and a body that is not
\* JSON or is an object with or without the fields success and error
TransportMessages == {"Failed to fetch", "Load failed"}

Responses ==
  {r \in [rejects : TransportMessages \cup {""}, ok : BOOLEAN, json : BOOLEAN,
          success : {"true", "false", "absent"}, error : {"", "Insufficient funds"}] :
     /\ r.rejects # "" => (r.ok /\ r.json /\ r.success = "absent" /\ r.error = "")
     /\ ~r.json => (r.success = "absent" /\ r.error = "")}

\* fetchJson: what the call settles with
fetchJson(r) ==
  LET body == IF r.json THEN [success |-> r.success, error |-> r.error]
              ELSE [success |-> "absent", error |-> ""]
  IN IF r.rejects # ""
     THEN [threw |-> TRUE, name |-> "TypeError", message |-> r.rejects]
     ELSE IF ~r.ok \/ body.success = "false"
     THEN [threw |-> TRUE, name |-> "Error",
           message |-> IF body.error # "" THEN body.error ELSE "Request failed"]
     ELSE [threw |-> FALSE, name |-> "", message |-> ""]

\* The state the render functions read and write: the wallet data of appState
\* and the globals openOffers and trustlineSet
ViewStates ==
  [appState : [phone : {"", "+100"}, xrpBalance : {25},
               trustlines : {{}, {"usd"}}, tokenBalances : {<<"USD">>},
               openOffers : OfferLists, incomingOffers : {{}},
               normalizedHistory : {<<>>, <<"in", "out", "trade", "escrow">>},
               marketOffers : {<<>>, <<3>>}],
   openOffers : OfferLists, trustlineSet : BOOLEAN]

\* The view state of a page that has loaded its data
LoadedView ==
  [appState |-> [phone |-> "+100", xrpBalance |-> 25, trustlines |-> {"usd"},
                 tokenBalances |-> <<"USD">>, openOffers |-> {1},
                 incomingOffers |-> {}, normalizedHistory |-> <<>>,
                 marketOffers |-> <<>>],
   openOffers |-> {1}, trustlineSet |-> TRUE]

\* formatNum(value, 6).replace(/\.?0+$/, ''): the digits without trailing zeros
balanceText(n) == IF n = 25 THEN "25" ELSE "0"

\* slice(0, n) of an array
Slice(s, n) == IF Len(s) <= n THEN s ELSE SubSeq(s, 1, n)

\* Each render function gives the state it leaves and the elements it wrote.
\* renderSummary: the summary elements, then trustlineSet is assigned
renderSummary(st) ==
  LET privateIdentifier == IF st.appState.phone # "" THEN st.appState.phone
                           ELSE "No phone linked"
  IN [st |-> [st EXCEPT !.trustlineSet =
                 \E line \in st.appState.trustlines : normalizeCurrency(line) # "XRP"],
      out |-> [address |-> privateIdentifier,
               balance |-> balanceText(st.appState.xrpBalance)]]

\* renderTokenList: the row of XRP, then a row for each token balance
renderTokenList(st) ==
  [st |-> st,
   out |-> <<balanceText(st.appState.xrpBalance)>> \o st.appState.tokenBalances]

\* A renderOpenOffers that lists the global openOffers before it refreshes it
renderOpenOffers_StaleList(st) ==
  LET shown == st.openOffers IN
  [st |-> [st EXCEPT !.openOffers = st.appState.openOffers],
   out |-> IF shown = {} /\ st.appState.incomingOffers = {}
           THEN [empty |-> TRUE, mine |-> {}, incoming |-> {}]
           ELSE [empty |-> FALSE, mine |-> shown,
                 incoming |-> st.appState.incomingOffers]]

\* renderOpenOffers: openOffers = appState.openOffers, then the list is written
renderOpenOffers(st) ==
  LET shown == st.appState.openOffers IN
  [st |-> [st EXCEPT !.openOffers = shown],
   out |-> IF shown = {} /\ st.appState.incomingOffers = {}
           THEN [empty |-> TRUE, mine |-> {}, incoming |-> {}]
           ELSE [empty |-> FALSE, mine |-> shown,
                 incoming |-> st.appState.incomingOffers]]

\* renderHistoryCards: records-list, the three most recent, wallet-tx-list
renderHistoryCards(st) ==
  [st |-> st,
   out |-> [records |-> st.appState.normalizedHistory,
            recent |-> Slice(st.appState.normalizedHistory, 3),
            walletTx |-> st.appState.normalizedHistory]]

\* renderMarketOffers(message): the note and the list of market offers
renderMarketOffers(st, message) ==
  [st |-> st,
   out |-> [note |-> IF message # "" THEN message
                     ELSE IF Len(st.appState.marketOffers) = 0
                     THEN "No matching public offers found right now."
                     ELSE "public offer(s) available.",
            list |-> st.appState.marketOffers]]

\* The effects of a step that runs a render function twice in a row: the
\* state before, the state after the first run, and what each run wrote
Rendered(op, st, first, second) ==
  Quiet(op) @@ [before |-> st, after |-> first.st, out |-> first.out,
                again |-> second.out, afterAgain |-> second.st]

\* The variables of the page, which no function below assigns
pageVars == <<username, location, activeTrade, trackInterval, liveTimers,
              tradeData, openOffers, calls, startBtn, page, tradeScreen, txHashEl,
              flowVars>>

RenderSummary(st) ==
  /\ last' = Rendered("renderSummary", st, renderSummary(st),
                      renderSummary(renderSummary(st).st))
  /\ UNCHANGED pageVars

RenderTokenList(st) ==
  /\ last' = Rendered("renderTokenList", st, renderTokenList(st),
                      renderTokenList(renderTokenList(st).st))
  /\ UNCHANGED pageVars

RenderOpenOffers(st) ==
  /\ last' = Rendered("renderOpenOffers", st, renderOpenOffers(st),
                      renderOpenOffers(renderOpenOffers(st).st))
  /\ UNCHANGED pageVars

RenderHistoryCards(st) ==
  /\ last' = Rendered("renderHistoryCards", st, renderHistoryCards(st),
                      renderHistoryCards(renderHistoryCards(st).st))
  /\ UNCHANGED pageVars

RenderMarketOffers(st, message) ==
  /\ last' = Rendered("renderMarketOffers", st, renderMarketOffers(st, message),
                      renderMarketOffers(renderMarketOffers(st, message).st, message))
  /\ UNCHANGED pageVars

\* renderTradeStepProgress(status), twice in a row
RenderTradeStepProgress(st, status) ==
  LET ev == [renderTradeStepProgress(Quiet("renderTradeStepProgress"), status)
               EXCEPT !.status = status]
      run == [st |-> st, out |-> <<ev.pct, ev.stage>>]
  IN
  /\ last' = ev @@ [before |-> st, after |-> run.st, out |-> run.out,
                    again |-> run.out, afterAgain |-> run.st]
  /\ UNCHANGED pageVars

\* checkCurrencyGate(page) with these values in the currency fields
CheckCurrencyGate(p, sell, buy, send, trustlines) ==
  /\ last' = Quiet("checkCurrencyGate") @@
               [gatePage |-> p, sell |-> sell, buy |-> buy, send |-> send,
                trustlines |-> trustlines,
                gate |-> checkCurrencyGate(p, sell, buy, send, trustlines)]
  /\ UNCHANGED pageVars

\* showTradeScreen(n) on a page with these screens visible; goTradeScreen(n)
\* calls it for every n but 2
ShowTradeScreen(before, n) ==
  /\ last' = Quiet("showTradeScreen") @@
               [before |-> before, asked |-> n, visible |-> visibleAfter(before, n)]
  /\ UNCHANGED pageVars

\* fetchJson(url, options) settles
FetchJson(r) ==
  /\ last' = Quiet("fetchJson") @@ [fetched |-> r, settled |-> fetchJson(r)]
  /\ UNCHANGED pageVars

\* ------------------------------------------------------------ trust-line flow
\* What the provider phone field and the currency field of the flow hold
TlCurrencyFields == {"", " ", "usd"}

\* normalizeCurrency(value || 'USD') of the currency field
tlCurrency(value) == normalizeCurrency(IF value = "" THEN "USD" ELSE value)

\* A suspended tlGoToVerify or tlConfirm: what it verified or submitted
TlCall(fn, pc, issuerPhone, currency) ==
  Call(fn, pc, 0, "none", FALSE, "") @@
    [draft |-> [issuerPhone |-> issuerPhone, currency |-> currency,
                limit |-> "1000000"]]

\* tlResetFlow: tlSetStep(1), the draft is dropped, the results are hidden
tlResetFlow ==
  /\ tlCurrentStep' = 1
  /\ tlDraft' = NullDraft
  /\ tlVerifyResults' = "none"

tradeVars == <<username, activeTrade, trackInterval, liveTimers, tradeData,
               openOffers, startBtn, tradeScreen, txHashEl>>

\* openTokenEnableFromDashboard: showPage('trustline'); tlResetFlow(true)
OpenTokenEnableFromDashboard ==
  /\ Running
  /\ page' = "trustline"
  /\ tlResetFlow
  /\ last' = Quiet("tlResetFlow")
  /\ UNCHANGED <<tradeVars, location, calls, tlConfirmInFlight, sendBtn>>

\* tlCancelFlow, from the cancel control of step 2
TlCancelFlow ==
  /\ Running
  /\ IF tlConfirmInFlight
     THEN /\ last' = Quiet("tlCancelFlow:busy")
          /\ UNCHANGED <<tlCurrentStep, tlDraft, tlVerifyResults>>
     ELSE /\ tlResetFlow
          /\ last' = Quiet("tlCancelFlow")
  /\ UNCHANGED <<tradeVars, location, calls, page, tlConfirmInFlight, sendBtn>>

\* tlBackOut: tlResetFlow(false)
TlBackOut ==
  /\ Running
  /\ tlResetFlow
  /\ last' = Quiet("tlBackOut")
  /\ UNCHANGED <<tradeVars, location, calls, page, tlConfirmInFlight, sendBtn>>

\* tlGoToVerify (and submitTrustline, which only calls it), up to its await
TlGoToVerify(issuerField, currencyField) ==
  /\ Running
  /\ IF requirePhoneIdentifierError(issuerField) # ""
     THEN /\ last' = [Quiet("tlGoToVerify:invalid") EXCEPT
                        !.alert = requirePhoneIdentifierError(issuerField)]
          /\ UNCHANGED <<location, calls, tlCurrentStep, tlVerifyResults>>
     ELSE IF tlCurrency(currencyField) = ""
     THEN /\ last' = [Quiet("tlGoToVerify:invalid") EXCEPT
                        !.alert = "field cannot be empty"]
          /\ UNCHANGED <<location, calls, tlCurrentStep, tlVerifyResults>>
     ELSE IF ~hasUsername
     THEN /\ location' = "/"
          /\ tlCurrentStep' = 1                              \* catch: tlSetStep(1)
          /\ tlVerifyResults' = "none"
          /\ last' = [Quiet("tlGoToVerify:nouser") EXCEPT
                        !.alert = "No active username session"]
          /\ UNCHANGED <<calls>>
     ELSE /\ HasRoom
          /\ tlCurrentStep' = 2                              \* tlSetStep(2)
          /\ tlVerifyResults' = "none"
          /\ calls' = Suspend(TlCall("tlGoToVerify", "check", issuerField,
                                     tlCurrency(currencyField)))
          /\ last' = Quiet("tlGoToVerify:request")
          /\ UNCHANGED <<location>>
  /\ UNCHANGED <<tradeVars, page, tlDraft, tlConfirmInFlight, sendBtn>>

\* tlGoToVerify: /api/trustline/check-issuer answered: the draft is stored and
\* showIssuerResults shows the checks and the verdict for data.risk
CheckIssuerOk(c, risk) ==
  /\ Running
  /\ c.fn = "tlGoToVerify" /\ c.pc = "check"
  /\ tlDraft' = c.draft
  /\ tlVerifyResults' = "block"
  /\ calls' = Settle(c)
  /\ last' = Quiet("checkIssuerOk") @@ [risk |-> risk]
  /\ UNCHANGED <<tradeVars, location, page, tlCurrentStep, tlConfirmInFlight,
                 sendBtn>>

\* tlGoToVerify: /api/trustline/check-issuer failed: alert, tlSetStep(1)
CheckIssuerFail(c) ==
  /\ Running
  /\ c.fn = "tlGoToVerify" /\ c.pc = "check"
  /\ tlCurrentStep' = 1
  /\ calls' = Settle(c)
  /\ last' = [Quiet("checkIssuerFail") EXCEPT !.alert = "Request failed"]
  /\ UNCHANGED <<tradeVars, location, page, tlDraft, tlVerifyResults,
                 tlConfirmInFlight, sendBtn>>

\* tlConfirm, up to its await.  The issuer and the currency come from the
\* draft, and from the fields of step 1 when there is no draft
TlConfirm(issuerField, currencyField) ==
  LET issuerPhone == IF tlDraft.issuerPhone # "" THEN tlDraft.issuerPhone
                     ELSE issuerField
      currency == IF tlDraft.currency # "" THEN normalizeCurrency(tlDraft.currency)
                  ELSE tlCurrency(currencyField)
  IN
  /\ Running
  /\ IF tlConfirmInFlight
     THEN /\ last' = Quiet("tlConfirm:busy")
          /\ UNCHANGED <<location, calls, tlConfirmInFlight>>
     ELSE IF requirePhoneIdentifierError(issuerPhone) # ""
     THEN /\ last' = [Quiet("tlConfirm:invalid") EXCEPT
                        !.alert = requirePhoneIdentifierError(issuerPhone)]
          /\ UNCHANGED <<location, calls, tlConfirmInFlight>>
     ELSE IF currency = ""
     THEN /\ last' = [Quiet("tlConfirm:invalid") EXCEPT
                        !.alert = "field cannot be empty"]
          /\ UNCHANGED <<location, calls, tlConfirmInFlight>>
     ELSE IF ~hasUsername
     THEN /\ location' = "/"
          /\ last' = [Quiet("tlConfirm:nouser") EXCEPT
                        !.alert = "No active username session"]
          /\ UNCHANGED <<calls, tlConfirmInFlight>>
     ELSE /\ HasRoom
          /\ tlConfirmInFlight' = TRUE
          /\ calls' = Suspend(TlCall("tlConfirm", "create", issuerPhone, currency))
          /\ last' = Quiet("tlConfirm:request")
          /\ UNCHANGED <<location>>
  /\ UNCHANGED <<tradeVars, page, tlCurrentStep, tlDraft, tlVerifyResults, sendBtn>>

\* tlConfirm: /api/trustline/create succeeded: setTrustlineDone, then
\* refreshAllData() is awaited
TlCreateOk(c) ==
  /\ Running
  /\ c.fn = "tlConfirm" /\ c.pc = "create"
  /\ tlCurrentStep' = 3                                      \* tlSetStep(3)
  /\ calls' = Resume(c, [c EXCEPT !.pc = "refresh"])
  /\ last' = Refreshing(Quiet("tlCreateOk"))
  /\ UNCHANGED <<tradeVars, location, page, tlDraft, tlVerifyResults,
                 tlConfirmInFlight, sendBtn>>

\* A failed tlConfirm whose finally block leaves the flag set
TlCreateFail_KeepsFlag(c) ==
  /\ Running
  /\ c.fn = "tlConfirm" /\ c.pc = "create"
  /\ calls' = Settle(c)
  /\ last' = [Quiet("tlCreateFail") EXCEPT !.alert = "Request failed"]
  /\ UNCHANGED <<tradeVars, location, page, tlCurrentStep, tlDraft,
                 tlVerifyResults, tlConfirmInFlight, sendBtn>>

\* tlConfirm: /api/trustline/create failed: catch, then finally
TlCreateFail(c) ==
  /\ Running
  /\ c.fn = "tlConfirm" /\ c.pc = "create"
  /\ tlConfirmInFlight' = FALSE
  /\ calls' = Settle(c)
  /\ last' = [Quiet("tlCreateFail") EXCEPT !.alert = "Request failed"]
  /\ UNCHANGED <<tradeVars, location, page, tlCurrentStep, tlDraft,
                 tlVerifyResults, sendBtn>>

\* tlConfirm: the refreshAllData() after a successful create settles: finally
TlRefreshed(c, r) ==
  /\ Running
  /\ c.fn = "tlConfirm" /\ c.pc = "refresh"
  /\ openOffers' = ApplyRefresh(r)
  /\ tlConfirmInFlight' = FALSE
  /\ calls' = Settle(c)
  /\ last' = IF r.ok THEN Quiet("tlRefreshed")
             ELSE [Quiet("tlRefreshFailed") EXCEPT !.alert = "Request failed"]
  /\ UNCHANGED <<username, location, activeTrade, trackInterval, liveTimers,
                 tradeData, startBtn, page, tradeScreen, txHashEl, tlCurrentStep,
                 tlDraft, tlVerifyResults, sendBtn>>

\* ------------------------------------------------------------------ send form
\* What the recipient, currency and amount fields of the send form hold
SendCurrencyFields == {"", " xrp ", "usd"}

\* normalizeCurrency(value || 'XRP') of the currency field
sendCurrencyOf(value) == normalizeCurrency(IF value = "" THEN "XRP" ELSE value)

\* The endpoint sendCurrency posts the payment to
sendEndpoint(currency) == IF currency = "XRP" THEN "/api/xrp/send" ELSE "/api/token/send"

\* A suspended sendCurrency: the text the control had, the recipient and the
\* currency it captured, and the endpoint it posted to ("" before it posts)
SendCall(saved, dest, currency) ==
  Call("sendCurrency", "check", 0, "none", FALSE, saved) @@
    [dest |-> dest, currency |-> currency, endpoint |-> "", sentTo |-> ""]

\* The answers of /api/check-address
AddressChecks == [valid : BOOLEAN, has_trustline : BOOLEAN]

\* setInlineMessage('send-status', text, true); alert(text)
SendError(ev, text) == [ev EXCEPT !.msg = text, !.isError = TRUE, !.alert = text]

formVars == <<username, activeTrade, trackInterval, liveTimers, tradeData,
              startBtn, page, tradeScreen, txHashEl, tlCurrentStep,
              tlConfirmInFlight, tlDraft, tlVerifyResults>>

\* sendCurrency, from the control send-btn, up to its first await.  A disabled
\* control takes no click.
SendCurrency(destField, currencyField, amount, issuerField) ==
  /\ Running
  /\ ~sendBtn.disabled
  /\ IF requirePhoneIdentifierError(destField) # ""
     THEN /\ last' = [Quiet("sendCurrency:invalid") EXCEPT
                        !.alert = requirePhoneIdentifierError(destField)]
          /\ UNCHANGED <<calls, sendBtn>>
     ELSE IF issuerField # "" /\ requirePhoneIdentifierError(issuerField) # ""
     THEN /\ last' = [Quiet("sendCurrency:invalid") EXCEPT
                        !.alert = requirePhoneIdentifierError(issuerField)]
          /\ UNCHANGED <<calls, sendBtn>>
     ELSE IF amount = ""
     THEN /\ last' = [Quiet("sendCurrency:invalid") EXCEPT
                        !.alert = "field cannot be empty"]
          /\ UNCHANGED <<calls, sendBtn>>
     ELSE /\ HasRoom
          /\ sendBtn' = [disabled |-> TRUE, text |-> "Sending..."]
          /\ calls' = Suspend(SendCall(sendBtn.text, destField,
                                       sendCurrencyOf(currencyField)))
          /\ last' = Quiet("sendCurrency:request")
  /\ UNCHANGED <<formVars, location, openOffers>>

\* A sendCurrency that posts the payment whatever /api/check-address answered
CheckAddressOk_Unchecked(c, check) ==
  /\ Running
  /\ c.fn = "sendCurrency" /\ c.pc = "check"
  /\ calls' = Resume(c, [c EXCEPT !.pc = "send",
                                  !.endpoint = sendEndpoint(c.currency),
                                  !.sentTo = c.dest])
  /\ last' = Quiet("checkAddressOk") @@ [check |-> check]
  /\ UNCHANGED <<location, sendBtn>>
  /\ UNCHANGED <<formVars, openOffers>>

\* sendCurrency: /api/check-address answered
CheckAddressOk(c, check) ==
  /\ Running
  /\ c.fn = "sendCurrency" /\ c.pc = "check"
  /\ IF ~check.valid
     THEN /\ sendBtn' = [disabled |-> FALSE, text |-> c.saved]
          /\ calls' = Settle(c)
          /\ last' = SendError(Quiet("checkAddressOk"),
                               "Recipient account is not valid on XRPL.") @@
                       [check |-> check]
          /\ UNCHANGED <<location>>
     ELSE IF c.currency # "XRP" /\ ~check.has_trustline
     THEN /\ sendBtn' = [disabled |-> FALSE, text |-> c.saved]
          /\ calls' = Settle(c)
          /\ last' = SendError(Quiet("checkAddressOk"),
                               "Recipient cannot receive (missing trust line).") @@
                       [check |-> check]
          /\ UNCHANGED <<location>>
     ELSE IF ~hasUsername
     THEN /\ location' = "/"
          /\ sendBtn' = [disabled |-> FALSE, text |-> c.saved]
          /\ calls' = Settle(c)
          /\ last' = SendError(Quiet("checkAddressOk"),
                               "No active username session") @@ [check |-> check]
     ELSE /\ calls' = Resume(c, [c EXCEPT !.pc = "send",
                                          !.endpoint = sendEndpoint(c.currency),
                                          !.sentTo = c.dest])
          /\ last' = Quiet("checkAddressOk") @@ [check |-> check]
          /\ UNCHANGED <<location, sendBtn>>
  /\ UNCHANGED <<formVars, openOffers>>

\* sendCurrency: /api/check-address or the send request failed: catch, finally
SendFail(c) ==
  /\ Running
  /\ c.fn = "sendCurrency" /\ c.pc \in {"check", "send"}
  /\ sendBtn' = [disabled |-> FALSE, text |-> c.saved]
  /\ calls' = Settle(c)
  /\ last' = SendError(Quiet(IF c.pc = "check" THEN "checkAddressFail" ELSE "sendFail"),
                       "Request failed")
  /\ UNCHANGED <<formVars, location, openOffers>>

\* sendCurrency: the send request succeeded: refreshAllData() is awaited
SendOk(c) ==
  /\ Running
  /\ c.fn = "sendCurrency" /\ c.pc = "send"
  /\ calls' = Resume(c, [c EXCEPT !.pc = "refresh"])
  /\ last' = [Refreshing(Quiet("sendOk")) EXCEPT !.msg = "Sent successfully."]
  /\ UNCHANGED <<formVars, location, openOffers, sendBtn>>

\* sendCurrency: the refreshAllData() after the payment settles: finally
SendRefreshed(c, r) ==
  /\ Running
  /\ c.fn = "sendCurrency" /\ c.pc = "refresh"
  /\ openOffers' = ApplyRefresh(r)
  /\ sendBtn' = [disabled |-> FALSE, text |-> c.saved]
  /\ calls' = Settle(c)
  /\ last' = IF r.ok THEN Quiet("sendRefreshed")
             ELSE SendError(Quiet("sendRefreshFailed"), "Request failed")
  /\ UNCHANGED <<formVars, location>>

\* ---------------------------------------------------------- specifications
Next ==
  \/ \E c \in InFlight, r \in RefreshResults : InitAppLoaded(c, r)
  \/ \E p \in Pages : ShowPage(p)
  \/ OpenSwapFromDashboard
  \/ \E sa \in Amounts, ba \in Amounts, si \in Issuers, bi \in Issuers :
       StartTradeFlow(sa, ba, si, bi)
  \/ \E c \in InFlight, seq \in Seqs, hash \in RespHashes : CreateOk(c, seq, hash)
  \/ \E c \in InFlight : CreateFail(c)
  \/ \E c \in InFlight, r \in RefreshResults : CreateRefreshed(c, r)
  \/ CancelOffer
  \/ \E seq \in Seqs : ViewOfferDetails(seq)
  \/ CheckTradeCompletion
  \/ \E seq \in 0..MaxSeq : CancelOfferBySequence(seq)
  \/ \E c \in InFlight : CancelSeqOk(c)
  \/ \E c \in InFlight : CancelSeqFail(c)
  \/ \E c \in InFlight, r \in RefreshResults : CancelSeqRefreshed(c, r)
  \/ Logout
  \/ \E typed \in TypedUsernames, password \in TypedPasswords :
       HandleLogin(typed, password)
  \/ \E typed \in TypedUsernames, password \in TypedPasswords,
        confirm \in TypedPasswords : HandleRegister(typed, password, confirm)
  \/ \E c \in InFlight : AuthOk(c)
  \/ \E c \in InFlight : AuthFail(c)

Spec == Init /\ [][Next]_vars

\* refreshAllData() for the controller: all four refreshes succeed and one
\* offer is open, or refreshOpenOffers fails
RefreshResultsCtl == {r \in RefreshResults : r.loaded = r.ok /\ (r.ok => r.offers = {1})}

\* The controller: the form is filled in, and responses carry no tx_hash or
\* last_ledger
NextCtl ==
  \/ \E c \in InFlight, r \in RefreshResultsCtl : InitAppLoaded(c, r)
  \/ OpenSwapFromDashboard
  \/ StartTradeFlow("100", "100", "", "")
  \/ \E c \in InFlight, seq \in Seqs : CreateOk(c, seq, "")
  \/ \E c \in InFlight : CreateFail(c)
  \/ \E c \in InFlight, r \in RefreshResultsCtl : CreateRefreshed(c, r)
  \/ CancelOffer
  \/ \E seq \in Seqs : ViewOfferDetails(seq)
  \/ \E seq \in Seqs : TrackTrade(seq)
  \/ \E t \in TimerIds : PollTick(t)
  \/ \E c \in InFlight, status \in Statuses : StatusOk(c, status, "", 0)
  \/ \E c \in InFlight : StatusFail(c)
  \/ \E c \in InFlight, r \in RefreshResultsCtl : StatusRefreshed(c, r)
  \/ \E c \in InFlight : CancelOk(c)
  \/ \E c \in InFlight : CancelFail(c)
  \/ \E c \in InFlight, r \in RefreshResultsCtl : CancelRefreshed(c, r)

SpecCtl == Init /\ [][NextCtl]_vars

\* The answers of /api/trade/status, with the fields refreshActiveTradeStatus
\* reads for the status: tx_hash when partially_filled or filled, last_ledger
\* when filled
StatusResponses ==
  {d \in [status : Statuses, tx_hash : RespHashes, last_ledger : RespLedgers] :
     /\ d.status \notin {"partially_filled", "filled"} => d.tx_hash = ""
     /\ d.status # "filled" => d.last_ledger = 0}

\* The controller while it polls a tracked trade: the responses carry tx_hash and
\* last_ledger, and the user views offers but starts and cancels nothing
NextConfirm ==
  \/ \E c \in InFlight, r \in RefreshResultsCtl : InitAppLoaded(c, r)
  \/ \E seq \in Seqs : ViewOfferDetails(seq)
  \/ \E seq \in Seqs : TrackTrade(seq)
  \/ \E t \in TimerIds : PollTick(t)
  \/ \E c \in InFlight, d \in StatusResponses :
       StatusOk(c, d.status, d.tx_hash, d.last_ledger)
  \/ \E c \in InFlight : StatusFail(c)
  \/ \E c \in InFlight, r \in RefreshResultsCtl : StatusRefreshed(c, r)

SpecConfirm == Init /\ [][NextConfirm]_vars

\* The functions of the script, each applied to inputs it can be given
RenderStatuses == Statuses \cup {"", "expired"}

NextView ==
  \/ \E st \in ViewStates : RenderSummary(st)
  \/ \E st \in ViewStates : RenderTokenList(st)
  \/ \E st \in ViewStates : RenderOpenOffers(st)
  \/ \E st \in ViewStates : RenderHistoryCards(st)
  \/ \E st \in ViewStates, message \in {"", "Request failed"} :
       RenderMarketOffers(st, message)
  \/ \E status \in RenderStatuses : RenderTradeStepProgress(LoadedView, status)
  \/ \E sell \in Currencies, buy \in Currencies, trustlines \in TrustlineSets :
       CheckCurrencyGate("trade", sell, buy, "XRP", trustlines)
  \/ \E send \in Currencies, trustlines \in TrustlineSets :
       CheckCurrencyGate("send", "XRP", "XRP", send, trustlines)
  \/ \E before \in SUBSET TradeScreens, n \in 0..5 : ShowTradeScreen(before, n)
  \/ \E r \in Responses : FetchJson(r)

SpecView == Init /\ [][NextView]_vars

\* The trust-line flow and the send form
NextFlows ==
  \/ \E c \in InFlight, r \in RefreshResultsCtl : InitAppLoaded(c, r)
  \/ OpenTokenEnableFromDashboard
  \/ \E issuerField \in Issuers, currencyField \in TlCurrencyFields :
       TlGoToVerify(issuerField, currencyField)
  \/ \E c \in InFlight, risk \in {"low", "medium", "high"} : CheckIssuerOk(c, risk)
  \/ \E c \in InFlight : CheckIssuerFail(c)
  \/ TlCancelFlow
  \/ TlBackOut
  \/ \E issuerField \in Issuers, currencyField \in TlCurrencyFields :
       TlConfirm(issuerField, currencyField)
  \/ \E c \in InFlight : TlCreateOk(c)
  \/ \E c \in InFlight : TlCreateFail(c)
  \/ \E c \in InFlight, r \in RefreshResultsCtl : TlRefreshed(c, r)
  \/ \E destField \in Issuers, currencyField \in SendCurrencyFields,
        amount \in Amounts, issuerField \in Issuers :
       SendCurrency(destField, currencyField, amount, issuerField)
  \/ \E c \in InFlight, check \in AddressChecks : CheckAddressOk(c, check)
  \/ \E c \in InFlight : SendFail(c)
  \/ \E c \in InFlight : SendOk(c)
  \/ \E c \in InFlight, r \in RefreshResultsCtl : SendRefreshed(c, r)

SpecFlows == Init /\ [][NextFlows]_vars

\* The list of open offers while a trade is tracked: the Details and Cancel
\* buttons of an offer, and the poll ticks of the tracked trade
NextOffers ==
  \/ \E c \in InFlight, r \in RefreshResults : InitAppLoaded(c, r)
  \/ \E seq \in Seqs : ViewOfferDetails(seq)
  \/ \E seq \in Seqs : TrackTrade(seq)
  \/ \E t \in TimerIds : PollTick(t)
  \/ \E c \in InFlight : StatusFail(c)
  \/ \E seq \in 0..MaxSeq : CancelOfferBySequence(seq)
  \/ \E c \in InFlight : CancelSeqOk(c)
  \/ \E c \in InFlight : CancelSeqFail(c)
  \/ \E c \in InFlight, r \in RefreshResults : CancelSeqRefreshed(c, r)

SpecOffers == Init /\ [][NextOffers]_vars

TypeOK ==
  /\ activeTrade \in 0..MaxSeq
  /\ trackInterval \in {0} \cup TimerIds
  /\ liveTimers \subseteq TimerIds
  /\ openOffers \subseteq Seqs
  /\ page \in Pages \cup {"trustline"}
  /\ tradeScreen \in {1, 4}
  /\ BagCardinality(calls) <= MaxCalls

\* ------------------------------------------------------------------ claims
\* Number of suspended invocations of fn that are at the await pc
CallsAt(fn, pc) ==
  BagCardinality([c \in {x \in InFlight : x.fn = fn /\ x.pc = pc} |-> CopiesIn(c, calls)])

\* Number of suspended refreshActiveTradeStatus() that the interval callback started
TimerDrivenCalls ==
  BagCardinality([c \in {x \in InFlight : x.fn = "refreshActiveTradeStatus" /\ x.byTimer}
                    |-> CopiesIn(c, calls)])

C2_AtMostOneLiveTimer ==
  /\ Cardinality(liveTimers) <= 1
  /\ liveTimers \subseteq {trackInterval}
  /\ last.op = "createOk" => liveTimers = {} /\ trackInterval = 0
  /\ last.op = "trackTrade" => liveTimers = {trackInterval}

C2_Witness ==
  /\ last.op \in {"createOk", "trackTrade"}
  /\ last.stopped

\* C3 as stated: once a poll response for the active trade says filled, no trade
\* is active, the poll timer is stopped and the step triggered exactly one full
\* refresh.
C3_FilledReachesIdle ==
  (last.op = "statusOk" /\ last.status = "filled" /\ ~last.stale) =>
    /\ activeTrade = 0
    /\ trackInterval = 0 /\ liveTimers = {}
    /\ last.refreshes = 1

\* C4 as stated: once a poll response for the active trade says cancelled or
\* failed, no trade is active and the poll timer is stopped; and when the full
\* refresh it triggered settles, successfully or not, that step has shown the
\* dashboard exactly once.
C4_CancelledOrFailedShowsDashboardOnce ==
  /\ (last.op = "statusOk" /\ last.status \in {"cancelled", "failed"} /\ ~last.stale) =>
       activeTrade = 0 /\ trackInterval = 0 /\ liveTimers = {}
  /\ (/\ last.op \in {"statusRefreshed", "statusRefreshFailed"}
      /\ last.status \in {"cancelled", "failed"}
      /\ ~last.stale) =>
       page = "dashboard" /\ last.dashboards = 1

\* C5: a failed status request of a poll tick leaves appState.activeTrade,
\* trackInterval and the live timer as they were, shows an error message, and
\* the timer that drives the next tick is still live.
C5_PollFailureKeepsPolling ==
  [][\A c \in InFlight :
       (/\ c.fn = "refreshActiveTradeStatus" /\ c.pc = "status" /\ c.byTimer
        /\ calls' = Settle(c)
        /\ last'.op = "statusFail") =>
         /\ activeTrade' = activeTrade
         /\ trackInterval' = trackInterval
         /\ liveTimers' = liveTimers
         /\ last'.msg # "" /\ last'.isError]_vars

C5_Witness ==
  /\ last.op = "statusFail"
  /\ ~last.stale
  /\ last.isError
  /\ activeTrade # 0
  /\ liveTimers = {trackInterval}

\* C6 as stated: after /api/trade/cancel succeeds for the active trade the poll
\* timer is stopped, appState.activeTrade is null and a full refresh is awaited;
\* and when that refresh settles the dashboard is shown.
C6_CancelSuccessShowsDashboard ==
  /\ last.op = "cancelOk" =>
       /\ activeTrade = 0
       /\ trackInterval = 0 /\ liveTimers = {}
       /\ CallsAt("cancelOffer", "refresh") >= 1
  /\ last.op \in {"cancelRefreshed", "cancelRefreshFailed"} => page = "dashboard"

\* C7: a failed /api/trade/cancel leaves appState.activeTrade, trackInterval and
\* the live timer as they were and shows an error (message and alert).
C7_CancelFailureKeepsTrade ==
  [][\A c \in InFlight :
       (/\ c.fn = "cancelOffer" /\ c.pc = "cancel"
        /\ calls' = Settle(c)
        /\ last'.op = "cancelFail") =>
         /\ activeTrade' = activeTrade
         /\ trackInterval' = trackInterval
         /\ liveTimers' = liveTimers
         /\ last'.isError /\ last'.msg # "" /\ last'.alert # ""]_vars

C7_Witness ==
  /\ last.op = "cancelFail"
  /\ last.isError
  /\ activeTrade # 0
  /\ liveTimers = {trackInterval}

\* C8 as stated: a status response for a trade that is no longer the active one
\* changes no trade state, shows nothing and reports no error.
C8_StaleResponseDiscarded ==
  [][(/\ last'.op \in {"statusOk", "statusFail"}
      /\ last'.stale
      /\ \E c \in InFlight : c.pc = "status" /\ c.seq # activeTrade
                              /\ CopiesIn(c, calls') < CopiesIn(c, calls)) =>
       /\ UNCHANGED <<activeTrade, trackInterval, liveTimers, tradeData,
                      tradeScreen, txHashEl, page>>
       /\ last'.msg = "" /\ last'.alert = ""
       /\ last'.pct = -1 /\ last'.stage = -1]_vars

\* C9 as stated: at most one refreshActiveTradeStatus() started by the interval
\* callback is suspended at any time.
C9_TicksDoNotOverlap == TimerDrivenCalls <= 1

\* C10: while a startTradeFlow is suspended the submit control is disabled, and
\* at most one /api/trade/create request is in flight.
C10_SingleCreateInFlight ==
  /\ \A c \in InFlight : c.fn = "startTradeFlow" => startBtn.disabled
  /\ CallsAt("startTradeFlow", "create") <= 1

C10_Witness ==
  /\ CallsAt("startTradeFlow", "create") = 1
  /\ startBtn.disabled
  /\ startBtn.text = "Submitting..."

\* C11: a failed /api/trade/create is reported (message and alert), leaves
\* appState.activeTrade, trackInterval and the live timers as they were, and
\* re-enables the submit control with the text it had before the attempt.
C11_CreateFailureRestores ==
  [][\A c \in InFlight :
       (/\ c.fn = "startTradeFlow" /\ c.pc = "create"
        /\ calls' = Settle(c)
        /\ last'.op = "createFail") =>
         /\ activeTrade' = activeTrade
         /\ trackInterval' = trackInterval
         /\ liveTimers' = liveTimers
         /\ ~startBtn'.disabled /\ startBtn'.text = c.saved
         /\ last'.isError /\ last'.msg # "" /\ last'.alert = last'.msg]_vars

C11_Witness ==
  /\ last.op = "createFail"
  /\ last.alert = "Request failed"
  /\ ~startBtn.disabled /\ startBtn.text = "Start"
  /\ CallsAt("startTradeFlow", "create") = 0

\* C12: what renderTradeStepProgress shows depends on the status alone: the
\* percentage is 15, 45, 75, 100 for submitted, open, partially_filled, filled
\* and 0 for cancelled and failed, and the active stage is 0, 1, 2, 3 for
\* submitted, open, partially_filled, filled; a second run shows the same.
C12_ProgressIsFunctionOfStatus ==
  last.op = "renderTradeStepProgress" =>
    /\ last.status = "submitted" => last.out = <<15, 0>>
    /\ last.status = "open" => last.out = <<45, 1>>
    /\ last.status = "partially_filled" => last.out = <<75, 2>>
    /\ last.status = "filled" => last.out = <<100, 3>>
    /\ last.status \in {"cancelled", "failed"} => last.out[1] = 0
    /\ last.again = last.out
    /\ last.pct = last.out[1] /\ last.stage = last.out[2]

C12_Witness ==
  /\ last.op = "renderTradeStepProgress"
  /\ last.status = "cancelled"
  /\ last.out = <<0, 3>>

\* C13: a status response that says filled shows confirm screen 4; when it
\* carries a tx_hash, that hash is written to tradeData and to tx-hash, and a
\* last_ledger it carries is the ledger reference shown; when it carries no
\* tx_hash, tx-hash shows the hash tradeData already held.
C13_FilledShowsResponseHash ==
  [][(last'.op = "statusOk" /\ last'.status = "filled") =>
       /\ tradeScreen' = 4
       /\ last'.response.tx_hash # "" =>
            /\ txHashEl' = last'.response.tx_hash
            /\ tradeData'.txHash = last'.response.tx_hash
       /\ last'.response.last_ledger # 0 => last'.ledger = "last_ledger"
       /\ (last'.response.tx_hash = "" /\ tradeData.txHash # "") =>
            /\ txHashEl' = tradeData.txHash
            /\ tradeData'.txHash = tradeData.txHash]_vars

C13_Witness ==
  /\ last.op = "statusOk" /\ last.status = "filled" /\ ~last.stale
  /\ last.response.tx_hash = "" /\ last.response.last_ledger = 7
  /\ txHashEl = "EF01"
  /\ tradeScreen = 4

\* C14 as stated: a startTradeFlow that finds a required field empty reports the
\* error, issues no request and leaves tradeData, appState, the poll timer and
\* the submit control as they were.
C14_EmptyFieldChangesNothing ==
  [][last'.op = "startTradeFlow:invalid" =>
       /\ last'.alert # ""
       /\ calls' = calls
       /\ UNCHANGED <<tradeData, username, activeTrade, openOffers, trackInterval,
                      liveTimers, startBtn>>]_vars

\* C15 as stated: a fetchJson whose request failed (fetch rejected, the HTTP
\* status is not a success, or the body says success false) throws one kind of
\* error whose message is the body's error text when there is one and
\* 'Request failed' otherwise; and it returns only for a successful response.
C15_UniformRequestError ==
  last.op = "fetchJson" =>
    LET r == last.fetched
        failed == r.rejects # "" \/ ~r.ok \/ (r.json /\ r.success = "false")
    IN /\ failed =>
            /\ last.settled.threw
            /\ last.settled.name = "Error"
            /\ last.settled.message = IF r.json /\ r.error # "" THEN r.error
                                      ELSE "Request failed"
       /\ ~last.settled.threw => (r.rejects = "" /\ r.ok /\ r.success # "false")

\* C16: the gate checkCurrencyGate shows depends on the selected currencies of
\* the page and the trust lines alone: it is shown exactly when a selected
\* currency is not XRP (in any letter case, with or without surrounding
\* blanks) and no trust line is in that currency.
C16_GateIsFunctionOfCurrencyAndTrustlines ==
  last.op = "checkCurrencyGate" =>
    LET IsXRP(v) == v \in {"XRP", " xrp "}
        SameCurrency(a, b) == \/ a = b
                              \/ {a, b} = {"USD", "usd"}
                              \/ {a, b} = {"XRP", " xrp "}
        HasLine(v) == \E line \in last.trustlines : SameCurrency(line, v)
        selected == IF last.gatePage = "trade" THEN {last.sell, last.buy}
                    ELSE {last.send}
    IN last.gate = IF \E v \in selected : ~IsXRP(v) /\ ~HasLine(v)
                   THEN "flex" ELSE "none"

C16_Witness ==
  /\ last.op = "checkCurrencyGate"
  /\ last.gatePage = "trade"
  /\ last.sell = " xrp " /\ last.buy = "USD"
  /\ last.trustlines = {"EUR"}
  /\ last.gate = "flex"

\* C17: viewOfferDetails for an open offer makes no trade active, creates no
\* poll timer and starts no request: after it appState.activeTrade is null,
\* every live timer was live before, and the suspended calls are the same.
C17_DetailsStartNoTracking ==
  [][last'.op = "viewOfferDetails" =>
       /\ activeTrade' = 0
       /\ liveTimers' \subseteq liveTimers
       /\ trackInterval' = trackInterval
       /\ calls' = calls]_vars

C17_Witness ==
  /\ last.op = "viewOfferDetails"
  /\ tradeData.offerSequence = 1
  /\ activeTrade = 0
  /\ liveTimers = {trackInterval}
  /\ TimerDrivenCalls = 1

\* The render functions
RenderOps == {"renderSummary", "renderTokenList", "renderOpenOffers",
              "renderHistoryCards", "renderMarketOffers", "renderTradeStepProgress"}

C19_RenderMutatesNothing ==
  [][last'.op \in RenderOps =>
       /\ last'.after = last'.before
       /\ calls' = calls
       /\ UNCHANGED <<tradeData, activeTrade, openOffers, trackInterval,
                      liveTimers>>]_vars

C22_NewTradeDiscardsOldFirst ==
  last.op = "startTradeFlow:request" =>
    /\ activeTrade = 0
    /\ trackInterval = 0 /\ liveTimers = {}

\* C23: driven through initApp and the handlers the page offers, the script
\* never has a trade active nor a poll timer (trackInterval is null and no
\* interval is live), and no refreshActiveTradeStatus() is suspended at its
\* /api/trade/status request.
C23_NeverTracksATrade ==
  /\ activeTrade = 0
  /\ trackInterval = 0 /\ liveTimers = {}
  /\ \A c \in InFlight : c.fn # "refreshActiveTradeStatus"
  /\ last.op # "status:request"

C23_Witness ==
  /\ last.op = "status:idle"
  /\ last.alert = "Trade is still processing on ledger."
  /\ tradeData.offerSequence # 0
  /\ CallsAt("startTradeFlow", "refresh") = 1

\* C24 as stated: once /api/trade/create has succeeded, startTradeFlow shows no
\* error and raises no alert, neither when it handles the response nor when
\* the refreshAllData() that follows settles, successfully or not.
C24_NoCreateErrorAfterCreateSucceeded ==
  last.op \in {"createOk", "createRefreshed", "createRefreshFailed"} =>
    /\ ~last.isError
    /\ last.alert = ""

\* C25: at most one tlConfirm is suspended, at its /api/trustline/create
\* request or at the refresh that follows; tlConfirmInFlight is true exactly
\* while one is suspended; and a tlConfirm invoked while the flag is set
\* changes nothing and starts no request.
C25_SingleTrustlineCreate ==
  /\ [](/\ CallsAt("tlConfirm", "create") + CallsAt("tlConfirm", "refresh") <= 1
        /\ tlConfirmInFlight <=> (\E c \in InFlight : c.fn = "tlConfirm"))
  /\ [][last'.op = "tlConfirm:busy" =>
          /\ tlConfirmInFlight
          /\ calls' = calls
          /\ UNCHANGED <<flowVars, tradeVars, page, location>>]_vars

C25_Witness ==
  /\ last.op = "tlConfirm:busy"
  /\ tlConfirmInFlight
  /\ CallsAt("tlConfirm", "refresh") = 1
  /\ tlCurrentStep = 3

\* C26 as stated: while the trust-line flow is at step 1 there is no draft and
\* no verification results are shown: window.__tlDraft is non-null and
\* tl-verify-results is displayed only at step 2 or 3.
C26_DraftOnlyWhileVerifying ==
  tlCurrentStep = 1 => (tlDraft = NullDraft /\ tlVerifyResults = "none")

\* C27: a send request is issued only by the step that handles a successful
\* answer of /api/check-address saying valid and, for a currency other than
\* XRP, has_trustline; it goes to the recipient that was checked and to the
\* endpoint of the currency.  A check that failed or said otherwise issues no
\* send request, shows an error and alerts.  The send control is disabled
\* exactly while a sendCurrency is suspended, so every outcome re-enables it.
C27_SendOnlyAfterCheck ==
  /\ [](/\ sendBtn.disabled <=> (\E c \in InFlight : c.fn = "sendCurrency")
        /\ \A c \in InFlight :
             (c.fn = "sendCurrency" /\ c.pc \in {"send", "refresh"}) =>
               /\ c.sentTo = c.dest
               /\ c.endpoint = IF c.currency = "XRP" THEN "/api/xrp/send"
                               ELSE "/api/token/send")
  /\ [][/\ (\E d \in BagToSet(calls') : /\ d.fn = "sendCurrency" /\ d.pc = "send"
                                        /\ CopiesIn(d, calls') > CopiesIn(d, calls)) =>
             /\ last'.op = "checkAddressOk"
             /\ last'.check.valid
             /\ \E c \in InFlight :
                  /\ c.fn = "sendCurrency" /\ c.pc = "check"
                  /\ CopiesIn(c, calls') < CopiesIn(c, calls)
                  /\ (c.currency # "XRP" => last'.check.has_trustline)
        /\ (/\ last'.op \in {"checkAddressOk", "checkAddressFail"}
            /\ \/ last'.op = "checkAddressFail"
               \/ ~last'.check.valid
               \/ \E c \in InFlight :
                    /\ c.fn = "sendCurrency" /\ c.pc = "check"
                    /\ c.currency # "XRP" /\ ~last'.check.has_trustline) =>
             /\ \A d \in BagToSet(calls') : d.fn = "sendCurrency" => d.pc # "send"
             /\ last'.isError /\ last'.msg # "" /\ last'.alert = last'.msg
             /\ ~sendBtn'.disabled]_vars

C27_Witness ==
  /\ last.op = "checkAddressOk"
  /\ last.check = [valid |-> TRUE, has_trustline |-> TRUE]
  /\ \E c \in InFlight : /\ c.fn = "sendCurrency" /\ c.pc = "send"
                         /\ c.currency = "USD" /\ c.endpoint = "/api/token/send"
  /\ sendBtn.disabled

\* C28: no step of cancelOfferBySequence (the request, its success, its
\* failure, the settling of its refresh) changes appState.activeTrade,
\* trackInterval or the live timers, also when the offer it cancels is the
\* active trade; its success calls refreshAllData() once and shows no page
\* and no trade screen; its failure alerts.
C28_CancelBySequenceKeepsTrade ==
  [][last'.op \in {"cancelOfferBySequence:none", "cancelOfferBySequence:request",
                   "cancelSeqOk", "cancelSeqFail", "cancelSeqRefreshed",
                   "cancelSeqRefreshFailed"} =>
       /\ UNCHANGED <<activeTrade, trackInterval, liveTimers, page, tradeScreen>>
       /\ last'.op = "cancelSeqOk" =>
            /\ last'.refreshes = 1 /\ last'.dashboards = 0
            /\ CallsAt("cancelOfferBySequence", "refresh")' =
                 CallsAt("cancelOfferBySequence", "refresh") + 1
       /\ last'.op = "cancelSeqFail" => last'.alert # "" /\ last'.refreshes = 0]_vars

C28_Witness ==
  /\ last.op = "cancelSeqOk"
  /\ last.cancelled = activeTrade
  /\ activeTrade # 0
  /\ liveTimers = {trackInterval}

\* C29: a cancelOffer invoked while appState.activeTrade is null issues no
\* request; it clears the interval trackInterval names and sets trackInterval
\* to null, shows trade screen 1 and the dashboard, and leaves no trade active.
C29_IdleCancelResets ==
  [][(activeTrade = 0 /\ last'.op \in {"cancelOffer:idle", "cancelOffer:request",
                                        "cancelOffer:nouser"}) =>
       /\ last'.op = "cancelOffer:idle"
       /\ calls' = calls
       /\ trackInterval' = 0
       /\ liveTimers' = liveTimers \ {trackInterval}
       /\ last'.stopped = (trackInterval \in liveTimers)
       /\ activeTrade' = 0
       /\ tradeScreen' = 1
       /\ page' = "dashboard" /\ last'.dashboards = 1]_vars

C29_Witness ==
  /\ last.op = "cancelOffer:idle"
  /\ last.stopped
  /\ liveTimers = {} /\ trackInterval = 0
  /\ tradeScreen = 1 /\ page = "dashboard"
  /\ CallsAt("cancelOffer", "cancel") = 0

\* C30: after showTradeScreen(n), whatever screens were visible before, at most
\* one trade screen is visible, it is neither screen 2 nor screen 3, and a
\* request for screen 2 or 3 leaves exactly the confirm screen 4 visible.
C30_OnlyScreensOneAndFour ==
  last.op = "showTradeScreen" =>
    /\ Cardinality(last.visible) <= 1
    /\ last.visible \cap {2, 3} = {}
    /\ last.asked \in {2, 3} => last.visible = {4}
    /\ last.asked \in {1, 4} => last.visible = {last.asked}

C30_Witness ==
  /\ last.op = "showTradeScreen"
  /\ last.before = {1, 2, 3}
  /\ last.asked = 3
  /\ last.visible = {4}

====
